---- MODULE Spec2Model ----
(***************************************************************************)
(* Agglomerative hierarchical clustering with the Lance-Williams update,   *)
(* as implemented by hierarchical_clustering and get_leaves in             *)
(* students/mt-desta/lab1/source/junk/hierarchicalAlgorithm.py.            *)
(*                                                                         *)
(* Points are 1-D with integer coordinates, so pdist yields |x_i - x_j|.   *)
(* Distances are exact rationals <<num, den>> (den > 0, lowest terms);     *)
(* NaN is <<0, 0>> and +inf is <<1, 0>>.  For the methods centroid and     *)
(* ward, whose update takes a square root of a rational, the model stores  *)
(* the SQUARE of every entry of the distance array: squaring is strictly   *)
(* increasing on the non-negative reals, so every comparison, the pair     *)
(* selected and the order of the sorted record are the ones of the code,   *)
(* and a negative radicand is NaN as np.sqrt makes it.                     *)
(* Python's 0-based position p of the distance array is element p + 1.     *)
(***************************************************************************)
EXTENDS Integers, Sequences, FiniteSets, TLC

VARIABLES data, method, num_clusters, n, clusters, dist_vector,
          linkage_matrix, index, a, b, min_dist, new_distances,
          pc, error, result, leaves_order

vars == <<data, method, num_clusters, n, clusters, dist_vector,
          linkage_matrix, index, a, b, min_dist, new_distances,
          pc, error, result, leaves_order>>

\* Bounds of the model.
MaxN == 4
MaxCoord == 3

\* The methods of the docstring, and one name outside them.
Methods == {"single", "complete", "average", "centroid", "ward"}
Squared == {"centroid", "ward"}
UnknownMethod == "median"

\* The two documented scenarios, added to the bounded inputs.
Scenarios == { [d |-> <<0, 1, 5, 6>>, m |-> "single"],
               [d |-> <<0, 3, 10>>, m |-> "complete"] }

Unbound == -1

---------------------------------------------------------------------------
\* Exact arithmetic on the values of the distance array.

NaN == <<0, 0>>
Inf == <<1, 0>>

Abs(x) == IF x < 0 THEN -x ELSE x

RECURSIVE GCD(_, _)
GCD(x, y) == IF y = 0 THEN x ELSE GCD(y, x % y)

Rat(p, q) == LET g == GCD(Abs(p), q) IN <<p \div g, q \div g>>

FromInt(k) == <<k, 1>>

Finite(x) == x[2] > 0

\* x < y as IEEE floats compare: false when either side is NaN.
Lt(x, y) ==
    IF x = NaN \/ y = NaN THEN FALSE
    ELSE IF x = Inf THEN FALSE
    ELSE IF y = Inf THEN TRUE
    ELSE x[1] * y[2] < y[1] * x[2]

Le(x, y) == (x = y /\ x # NaN) \/ Lt(x, y)

RAdd(x, y) ==
    IF ~Finite(x) \/ ~Finite(y) THEN NaN
    ELSE Rat(x[1] * y[2] + y[1] * x[2], x[2] * y[2])

RScale(k, x) == IF ~Finite(x) THEN NaN ELSE Rat(k * x[1], x[2])

RSub(x, y) == RAdd(x, RScale(-1, y))

RDiv(x, k) == IF ~Finite(x) THEN NaN ELSE Rat(x[1], x[2] * k)

\* np.sqrt on the stored square: a negative radicand is NaN.
SqrtSq(x) == IF Finite(x) /\ x[1] < 0 THEN NaN ELSE x

\* Python's builtin min(da, db) and max(da, db): the first argument unless
\* the second compares strictly smaller (larger).
PyMin(da, db) == IF Lt(db, da) THEN db ELSE da
PyMax(da, db) == IF Lt(da, db) THEN db ELSE da

---------------------------------------------------------------------------
\* _condensed_index(n, i, j)
_condensed_index(nn, i, j) ==
    IF i < j THEN nn * i - ((i * (i + 1)) \div 2) + (j - i - 1)
    ELSE IF i > j THEN nn * j - ((j * (j + 1)) \div 2) + (i - j - 1)
    ELSE 0

\* An index read dist_vector[p] raises IndexError outside [-len, len).
InBounds(dv, p) == p >= -Len(dv) /\ p < Len(dv)

\* dist_vector[p], with numpy's wrap-around of a negative position.
At(dv, p) == IF p >= 0 THEN dv[p + 1] ELSE dv[Len(dv) + p + 1]

\* The pairs (i, j), i < j < k, in the scan order of the two nested loops.
RECURSIVE PairsFrom(_, _, _)
PairsFrom(i, j, k) ==
    IF i >= k - 1 THEN <<>>
    ELSE IF j >= k THEN PairsFrom(i + 1, i + 2, k)
    ELSE <<<<i, j>>>> \o PairsFrom(i, j + 1, k)

Pairs(k) == PairsFrom(0, 1, k)

\* compute_distance_matrix: pdist(data), Euclidean, row-major upper triangle
\* (no entry for fewer than two points).
compute_distance_matrix(d, m) ==
    LET ps == Pairs(Len(d))
    IN [p \in 1..Len(ps) |->
          LET e == Abs(d[ps[p][1] + 1] - d[ps[p][2] + 1])
          IN FromInt(IF m \in Squared THEN e * e ELSE e)]

---------------------------------------------------------------------------
\* Clusters are (identifier, member list) pairs; slot s of the Python list
\* is element s + 1.
Cluster(i, ms) == [id |-> i, members |-> ms]

Slot(cl, s) == cl[s + 1]

Size(cl, s) == Len(Slot(cl, s).members)

\* The Lance-Williams formula of one method, for one remaining cluster:
\* da, db, dab are the entries read, sa, sb, si the three cluster sizes.
LanceWilliams(m, da, db, dab, sa, sb, si) ==
    CASE m = "single" -> PyMin(da, db)
      [] m = "complete" -> PyMax(da, db)
      [] m = "average" ->
            RDiv(RAdd(RScale(sa, da), RScale(sb, db)), sa + sb)
      [] m = "centroid" ->
            SqrtSq(RSub(RDiv(RAdd(RScale(sa, da), RScale(sb, db)), sa + sb),
                        RDiv(RScale(sa * sb, dab), (sa + sb) * (sa + sb))))
      [] m = "ward" ->
            SqrtSq(RDiv(RSub(RAdd(RScale(sa + si, da), RScale(sb + si, db)),
                             RScale(si, dab)),
                        sa + sb + si))

\* The slots other than a and b, in increasing order: the loop of
\* update_distance_matrix over range(n) with its test i != a and i != b.
RECURSIVE OtherSlots(_, _, _, _)
OtherSlots(i, k, sa, sb) ==
    IF i >= k THEN <<>>
    ELSE IF i # sa /\ i # sb THEN <<i>> \o OtherSlots(i + 1, k, sa, sb)
    ELSE OtherSlots(i + 1, k, sa, sb)

\* The positions update_distance_matrix reads for slot i (n is the local
\* n = len(clusters)); the third is read by centroid and ward only.
UpdateReads(m, k, sa, sb, i) ==
    <<_condensed_index(k, sa, i), _condensed_index(k, sb, i)>>
      \o (IF m \in Squared THEN <<_condensed_index(k, sa, sb)>> ELSE <<>>)

\* The exception update_distance_matrix raises, "none" when it returns:
\* the first remaining slot decides, an out-of-range read before the
\* unassigned new_dist of a method no branch matches.
UpdateError(dv, sa, sb, cl, m) ==
    LET k == Len(cl)
        os == OtherSlots(0, k, sa, sb)
        bad(i) == \E r \in 1..Len(UpdateReads(m, k, sa, sb, i)) :
                     ~InBounds(dv, UpdateReads(m, k, sa, sb, i)[r])
        \* the first slot whose iteration raises, 0 when none does
        first == IF \E q \in 1..Len(os) : bad(os[q]) \/ m \notin Methods
                 THEN CHOOSE q \in 1..Len(os) :
                        /\ bad(os[q]) \/ m \notin Methods
                        /\ \A r \in 1..(q - 1) :
                              ~(bad(os[r]) \/ m \notin Methods)
                 ELSE 0
    IN IF first = 0 THEN "none"
       ELSE IF bad(os[first]) THEN "IndexError"
       ELSE "UnboundLocalError"

\* update_distance_matrix(dist_vector, a, b, clusters, method), when it
\* returns: one new distance per remaining slot, in slot order.
update_distance_matrix(dv, sa, sb, cl, m) ==
    LET k == Len(cl)
        os == OtherSlots(0, k, sa, sb)
    IN [q \in 1..Len(os) |->
          LanceWilliams(m,
                        At(dv, _condensed_index(k, sa, os[q])),
                        At(dv, _condensed_index(k, sb, os[q])),
                        At(dv, _condensed_index(k, sa, sb)),
                        Size(cl, sa), Size(cl, sb), Size(cl, os[q]))]

\* merge_clusters(clusters, a, b, index)
RECURSIVE Without(_, _, _, _)
Without(cl, s, sa, sb) ==
    IF s >= Len(cl) THEN <<>>
    ELSE IF s \notin {sa, sb} THEN <<Slot(cl, s)>> \o Without(cl, s + 1, sa, sb)
    ELSE Without(cl, s + 1, sa, sb)

\* Faulty variant of merge_clusters: cluster b stays in the list next to the
\* merged cluster.
merge_clusters_keeps_b(cl, sa, sb, idx) ==
    Without(cl, 0, sa, sa)
      \o <<Cluster(idx, Slot(cl, sa).members \o Slot(cl, sb).members)>>

merge_clusters(cl, sa, sb, idx) ==
    Without(cl, 0, sa, sb)
      \o <<Cluster(idx, Slot(cl, sa).members \o Slot(cl, sb).members)>>

\* The position the Select scan reads for the pair of slots (i, j): the
\* ORIGINAL n and the first member of each cluster.
SelectRead(nn, cl, i, j) ==
    _condensed_index(nn, Slot(cl, i).members[1], Slot(cl, j).members[1])

\* The two nested loops of the Select step over the pairs ps from position
\* q on; cur = <<min_dist, a, b>>.  a and b keep their previous values when
\* no entry compares below min_dist.
RECURSIVE Scan(_, _, _, _, _, _)
Scan(dv, nn, cl, ps, q, cur) ==
    IF q > Len(ps) THEN cur
    ELSE LET dist == At(dv, SelectRead(nn, cl, ps[q][1], ps[q][2]))
         IN Scan(dv, nn, cl, ps, q + 1,
                 IF Lt(dist, cur[1]) THEN <<dist, ps[q][1], ps[q][2]>>
                 ELSE cur)

SelectInBounds(dv, nn, cl) ==
    \A i, j \in 0..(Len(cl) - 1) :
       i < j => InBounds(dv, SelectRead(nn, cl, i, j))

\* The splice of lines 103-105: the slices dv[:p] and dv[p+1:] never raise.
Slice(dv, lo, hi) ==
    [q \in 1..(IF hi > lo THEN hi - lo ELSE 0) |-> dv[lo + q]]

Min2(x, y) == IF x < y THEN x ELSE y

\* Faulty variant of the splice: the new distances are not appended.
Splice_drops_new(dv, p, nd) ==
    Slice(dv, 0, Min2(p, Len(dv))) \o Slice(dv, Min2(p + 1, Len(dv)), Len(dv))

Splice(dv, p, nd) ==
    Slice(dv, 0, Min2(p, Len(dv))) \o Slice(dv, Min2(p + 1, Len(dv)), Len(dv))
      \o nd

\* The rows of rows in every order that linkage_matrix[:, 2].argsort() can
\* produce: ascending by distance, NaN last, tied rows in any order
\* (argsort's default kind is not stable).
Perms(m) == {f \in [1..m -> 1..m] : \A x, y \in 1..m : x # y => f[x] # f[y]}

Ascending(x, y) == y = NaN \/ Le(x, y)

\* Faulty variant of the final sort: the rows come back in any order.
Argsorts_unsorted(rows) == Perms(Len(rows))

Argsorts(rows) ==
    {f \in Perms(Len(rows)) :
        \A r \in 1..(Len(rows) - 1) :
           Ascending(rows[f[r]][3], rows[f[r + 1]][3])}

\* get_leaves(linkage_matrix, num_leaves).  The dict clusters is the
\* sequence of its (key, value) items in insertion order.
HasKey(dict, k) == \E q \in 1..Len(dict) : dict[q][1] = k

Pop(dict, k) == SelectSeq(dict, LAMBDA it : it[1] # k)

PopValue(dict, k) ==
    IF HasKey(dict, k)
    THEN (CHOOSE it \in {dict[q] : q \in 1..Len(dict)} : it[1] = k)[2]
    ELSE <<k>>

RECURSIVE Replay(_, _, _, _)
Replay(lm, num_leaves, i, dict) ==
    IF i >= Len(lm) THEN dict
    ELSE LET ka == lm[i + 1][1]
             kb == lm[i + 1][2]
             cluster_a == PopValue(dict, ka)
             d1 == Pop(dict, ka)
             cluster_b == PopValue(d1, kb)
             d2 == Pop(d1, kb)
         IN Replay(lm, num_leaves, i + 1,
                   Append(d2, <<num_leaves + i, cluster_a \o cluster_b>>))

get_leaves(lm, num_leaves) ==
    LET dict == Replay(lm, num_leaves, 0,
                       [i \in 1..num_leaves |-> <<i - 1, <<i - 1>>>>])
    IN [q \in 1..Len(dict) |-> dict[q][2]]

---------------------------------------------------------------------------
\* The inputs of the bounds.  data is the column of coordinates; pdist
\* depends on the differences of the coordinates only, so the smallest
\* coordinate of a non-empty column is taken to be 0.
Columns ==
    UNION { {d \in [1..k -> 0..MaxCoord] : k = 0 \/ \E i \in 1..k : d[i] = 0} :
            k \in 0..MaxN }

Inputs ==
    { [d |-> d, m |-> m] : d \in Columns, m \in Methods \cup {UnknownMethod} }
      \cup Scenarios

\* The state at entry of the while loop (lines 77-81), n = data.shape[0].
Init ==
    \E inp \in Inputs :
      /\ data = inp.d
      /\ method = inp.m
      /\ num_clusters \in 1..(Len(inp.d) + 1)
      /\ n = Len(inp.d)
      /\ clusters = [i \in 1..Len(inp.d) |-> Cluster(i - 1, <<i - 1>>)]
      /\ dist_vector = compute_distance_matrix(inp.d, inp.m)
      /\ linkage_matrix = <<>>
      /\ index = Len(inp.d)
      /\ a = Unbound
      /\ b = Unbound
      /\ min_dist = Inf
      /\ new_distances = <<>>
      /\ pc = "loop"
      /\ error = "none"
      /\ result = <<>>
      /\ leaves_order = <<>>

Raise(e) == pc' = "error" /\ error' = e

\* Lines 83-91: the loop test, then the scan for the closest pair.
Select ==
    /\ pc = "loop"
    /\ Len(clusters) > num_clusters
    /\ IF SelectInBounds(dist_vector, n, clusters)
       THEN LET cur == Scan(dist_vector, n, clusters, Pairs(Len(clusters)), 1,
                            <<Inf, a, b>>)
            IN /\ min_dist' = cur[1]
               /\ a' = cur[2]
               /\ b' = cur[3]
               /\ pc' = "record"
               /\ UNCHANGED error
       ELSE /\ Raise("IndexError")
            /\ UNCHANGED <<min_dist, a, b>>
    /\ UNCHANGED <<data, method, num_clusters, n, clusters, dist_vector,
                   linkage_matrix, index, new_distances, result, leaves_order>>

\* Line 93: append the merge event.
Record ==
    /\ pc = "record"
    /\ IF a = Unbound
       THEN Raise("UnboundLocalError") /\ UNCHANGED linkage_matrix
       ELSE IF a >= Len(clusters) \/ b >= Len(clusters)
       THEN Raise("IndexError") /\ UNCHANGED linkage_matrix
       ELSE /\ linkage_matrix' =
                  Append(linkage_matrix,
                         <<Slot(clusters, a).id, Slot(clusters, b).id, min_dist,
                           Size(clusters, a) + Size(clusters, b)>>)
            /\ pc' = "update"
            /\ UNCHANGED error
    /\ UNCHANGED <<data, method, num_clusters, n, clusters, dist_vector, index,
                   a, b, min_dist, new_distances, result, leaves_order>>

\* Line 96: the Lance-Williams update.
Update ==
    /\ pc = "update"
    /\ LET e == UpdateError(dist_vector, a, b, clusters, method)
       IN IF e = "none"
          THEN /\ new_distances' =
                     update_distance_matrix(dist_vector, a, b, clusters, method)
               /\ pc' = "merge"
               /\ UNCHANGED error
          ELSE Raise(e) /\ UNCHANGED new_distances
    /\ UNCHANGED <<data, method, num_clusters, n, clusters, dist_vector,
                   linkage_matrix, index, a, b, min_dist, result, leaves_order>>

\* Lines 99-105: merge the two clusters, take the next identifier, rebuild
\* the distance array, and go back to the loop test.
Merge ==
    /\ pc = "merge"
    /\ clusters' = merge_clusters(clusters, a, b, index)
    /\ index' = index + 1
    /\ dist_vector' = Splice(dist_vector, _condensed_index(n, a, b), new_distances)
    /\ pc' = "loop"
    /\ UNCHANGED <<data, method, num_clusters, n, linkage_matrix, a, b,
                   min_dist, new_distances, error, result, leaves_order>>

\* Lines 107-108: np.array(linkage_matrix) is 1-dimensional when the list is
\* empty, and linkage_matrix[:, 2] then raises IndexError.
Return ==
    /\ pc = "loop"
    /\ ~(Len(clusters) > num_clusters)
    /\ IF linkage_matrix = <<>>
       THEN Raise("IndexError") /\ UNCHANGED result
       ELSE \E f \in Argsorts(linkage_matrix) :
              /\ result' = [r \in 1..Len(linkage_matrix) |-> linkage_matrix[f[r]]]
              /\ pc' = "done"
              /\ UNCHANGED error
    /\ UNCHANGED <<data, method, num_clusters, n, clusters, dist_vector,
                   linkage_matrix, index, a, b, min_dist, new_distances,
                   leaves_order>>

\* Lines 167-168 of plot_dendrogram on the returned record.
Plot ==
    /\ pc = "done"
    /\ leaves_order' = get_leaves(result, Len(result) + 1)
    /\ pc' = "plotted"
    /\ UNCHANGED <<data, method, num_clusters, n, clusters, dist_vector,
                   linkage_matrix, index, a, b, min_dist, new_distances,
                   error, result>>

Next == Select \/ Record \/ Update \/ Merge \/ Return \/ Plot

Spec == Init /\ [][Next]_vars

---------------------------------------------------------------------------
\* Vocabulary of the properties.

Supported == method \in Methods

\* The call is one of a point count N >= 2 and 1 <= num_clusters < N.
Proper == n >= 2 /\ num_clusters >= 1 /\ num_clusters < n

Returned == pc \in {"done", "plotted"}

Range(s) == {s[q] : q \in 1..Len(s)}

\* C1: a proper call with a supported method never raises; each iteration
\* appends one row and leaves one cluster fewer, so the number of active
\* clusters is N minus the rows recorded at every loop test; and the call
\* returns after exactly N - num_clusters iterations with that many rows.
C1_ExactIterations ==
    (Supported /\ Proper) =>
       /\ pc # "error"
       /\ pc \in {"loop", "record", "done", "plotted"}
             => Len(clusters) = n - Len(linkage_matrix)
       /\ pc \in {"update", "merge"}
             => Len(clusters) = n - Len(linkage_matrix) + 1
       /\ Len(clusters) >= num_clusters
       /\ Returned => /\ Len(linkage_matrix) = n - num_clusters
                      /\ Len(result) = n - num_clusters
                      /\ Len(clusters) = num_clusters

C1_Witness ==
    /\ Supported /\ Proper /\ n = MaxN /\ num_clusters = 1
    /\ pc = "done" /\ Len(result) = n - 1

\* The rows of the initial singleton clusters.
Singletons == [i \in 1..n |-> Cluster(i - 1, <<i - 1>>)]

\* C2: a call with num_clusters >= N (N = 0 included) performs no
\* iteration and returns normally an empty record with the N singleton
\* clusters unchanged.
C2_DegenerateReturnsEmpty ==
    num_clusters >= n =>
       /\ pc # "error"
       /\ linkage_matrix = <<>>
       /\ clusters = Singletons
       /\ Returned => result = <<>>

\* C3: with a method name outside the five supported ones nothing is
\* computed: no pair is selected, no row recorded, no cluster merged, and
\* the call never returns a result.
C3_UnknownMethodFailsFast ==
    ~Supported =>
       /\ a = Unbound /\ b = Unbound
       /\ linkage_matrix = <<>>
       /\ clusters = Singletons
       /\ ~Returned

\* The member set of identifier id, from the rows recorded so far: row t
\* (1-based, discovery order) creates the identifier n + t - 1.
RECURSIVE MembersOf(_)
MembersOf(id) ==
    IF id < n THEN {id}
    ELSE MembersOf(linkage_matrix[id - n + 1][1])
           \cup MembersOf(linkage_matrix[id - n + 1][2])

PointDist(i, j) == Abs(data[i + 1] - data[j + 1])

SetMin(S) == CHOOSE x \in S : \A y \in S : x <= y
SetMax(S) == CHOOSE x \in S : \A y \in S : x >= y

RECURSIVE SumCoord(_)
SumCoord(S) ==
    IF S = {} THEN 0
    ELSE LET x == CHOOSE y \in S : TRUE IN data[x + 1] + SumCoord(S \ {x})

RECURSIVE SumDist(_)
SumDist(P) ==
    IF P = {} THEN 0
    ELSE LET x == CHOOSE y \in P : TRUE
         IN PointDist(x[1], x[2]) + SumDist(P \ {x})

CrossDists(A, B) == {PointDist(i, j) : i \in A, j \in B}

\* The linkage dissimilarity of two member sets computed from the points
\* (for centroid and ward its square, as the distance array is stored).
Dissimilarity(m, A, B) ==
    LET cA == Cardinality(A)
        cB == Cardinality(B)
        sumA == SumCoord(A)
        sumB == SumCoord(B)
        cross == SumDist(A \X B)
        \* (mean(A) - mean(B))^2
        gap == Rat((sumA * cB - sumB * cA) * (sumA * cB - sumB * cA),
                   cA * cA * cB * cB)
    IN CASE m = "single" -> FromInt(SetMin(CrossDists(A, B)))
         [] m = "complete" -> FromInt(SetMax(CrossDists(A, B)))
         [] m = "average" -> Rat(cross, cA * cB)
         [] m = "centroid" -> gap
         [] m = "ward" -> RDiv(RScale(2 * cA * cB, gap), cA + cB)

\* C4: with single (complete) linkage every recorded distance is the
\* minimum (maximum) point-to-point distance between the two member sets
\* merged; the two documented scenarios give the documented records.
C4_SingleCompleteDistances ==
    /\ method \in {"single", "complete"} =>
          \A t \in 1..Len(linkage_matrix) :
             linkage_matrix[t][3] =
                Dissimilarity(method, MembersOf(linkage_matrix[t][1]),
                              MembersOf(linkage_matrix[t][2]))
    /\ (data = <<0, 1, 5, 6>> /\ method = "single" /\ num_clusters = 1
          /\ Returned) =>
          /\ {MembersOf(n + t - 1) : t \in 1..2} = {{0, 1}, {2, 3}}
          /\ linkage_matrix[1][3] = FromInt(1)
          /\ linkage_matrix[2][3] = FromInt(1)
          /\ linkage_matrix[3][3] = FromInt(4)
    /\ (data = <<0, 3, 10>> /\ method = "complete" /\ num_clusters = 1
          /\ Returned) =>
          /\ MembersOf(n) = {0, 1}
          /\ linkage_matrix[1][3] = FromInt(3)
          /\ MembersOf(n + 1) = {0, 1, 2}
          /\ linkage_matrix[2][3] = FromInt(10)

\* C5: in every state the member lists of the active clusters partition
\* 0..N-1 (no index twice, none missing); a run to one cluster of N >= 2
\* points ends with the single cluster holding every index.
AllMembers ==
    LET RECURSIVE Cat(_)
        Cat(s) == IF s > Len(clusters) THEN <<>>
                  ELSE clusters[s].members \o Cat(s + 1)
    IN Cat(1)

C5_Partition ==
    /\ Len(AllMembers) = n
    /\ Range(AllMembers) = 0..(n - 1)
    /\ (n >= 2 /\ num_clusters = 1 /\ Returned) =>
          /\ Len(clusters) = 1
          /\ Range(clusters[1].members) = 0..(n - 1)
          /\ Len(clusters[1].members) = n

C5_Witness ==
    /\ n = MaxN /\ num_clusters = 1 /\ pc = "done"
    /\ Len(clusters) = 1 /\ Range(clusters[1].members) = 0..(n - 1)

\* C6: for single, complete and average no merge is recorded at a distance
\* below that of an earlier merge that created one of its operands.
C6_NoInversion ==
    method \in {"single", "complete", "average"} =>
       \A t \in 1..Len(linkage_matrix) : \A c \in 1..2 :
          linkage_matrix[t][c] >= n =>
             Le(linkage_matrix[linkage_matrix[t][c] - n + 1][3],
                linkage_matrix[t][3])

\* C7: for a supported method, N >= 2 and num_clusters = 1, the leaves
\* get_leaves reconstructs from the returned record hold every index of
\* 0..N-1 exactly once and nothing else.
AllLeaves ==
    LET RECURSIVE Cat(_)
        Cat(s) == IF s > Len(leaves_order) THEN <<>>
                  ELSE leaves_order[s] \o Cat(s + 1)
    IN Cat(1)

C7_LeavesPartition ==
    (Supported /\ n >= 2 /\ num_clusters = 1 /\ pc = "plotted") =>
       /\ Len(AllLeaves) = n
       /\ Range(AllLeaves) = 0..(n - 1)

\* C8: the returned record is ascending in distance and holds exactly the
\* rows the loop recorded, each as often as it was recorded.
Count(s, x) == Cardinality({q \in 1..Len(s) : s[q] = x})

C8_SortedPermutation ==
    Returned =>
       /\ \A r \in 1..(Len(result) - 1) : Le(result[r][3], result[r + 1][3])
       /\ Len(result) = Len(linkage_matrix)
       /\ \A x \in Range(linkage_matrix) \cup Range(result) :
             Count(result, x) = Count(linkage_matrix, x)

\* Some row was recorded after a row of a larger distance.
OutOfOrder(lm) ==
    \E r, t \in 1..Len(lm) : r < t /\ Lt(lm[t][3], lm[r][3])

C8_Witness ==
    /\ pc = "done" /\ OutOfOrder(linkage_matrix) /\ Len(result) = MaxN - 1

\* C9: before every Select step the distance array is the condensed matrix
\* of the k active clusters: k(k-1)/2 entries, the entry of slots i < j
\* being the dissimilarity of the clusters in these slots.
C9_CondensedMatrix ==
    (Supported /\ pc = "loop" /\ Len(clusters) > num_clusters) =>
       LET k == Len(clusters) IN
       /\ Len(dist_vector) = (k * (k - 1)) \div 2
       /\ \A i, j \in 0..(k - 1) :
             i < j =>
                /\ _condensed_index(k, i, j) < Len(dist_vector)
                /\ dist_vector[_condensed_index(k, i, j) + 1] =
                      Dissimilarity(method, Range(Slot(clusters, i).members),
                                    Range(Slot(clusters, j).members))

\* C10: in a proper call with a supported method every position read is
\* inside the distance array: those of the Select scan (original N, first
\* members), those of update_distance_matrix (current count, slots) and the
\* one of the splice; and the selected slots are 0 <= a < b < active count.
Inside(p) == 0 <= p /\ p < Len(dist_vector)

C10_ReadsInBounds ==
    (Supported /\ Proper) =>
       /\ error # "IndexError"
       /\ (pc = "loop" /\ Len(clusters) > num_clusters) =>
             \A i, j \in 0..(Len(clusters) - 1) :
                i < j => Inside(SelectRead(n, clusters, i, j))
       /\ pc \in {"record", "update", "merge"} =>
             0 <= a /\ a < b /\ b < Len(clusters)
       /\ pc = "update" =>
             \A i \in 0..(Len(clusters) - 1) :
                i \notin {a, b} =>
                   /\ Inside(_condensed_index(Len(clusters), a, i))
                   /\ Inside(_condensed_index(Len(clusters), b, i))
                   /\ Inside(_condensed_index(Len(clusters), a, b))
       /\ pc = "merge" => Inside(_condensed_index(n, a, b))

C10_Witness ==
    /\ Supported /\ Proper /\ n = MaxN /\ pc = "update"
    /\ Len(clusters) = 3 /\ Len(dist_vector) > (n * (n - 1)) \div 2

====
